---- MODULE Spec2Model ----
(***************************************************************************)
(* A model of the CPU class of src/cpu.py: the memory, the register file,  *)
(* the flags, the dispatch table, the handlers and the fetch-decode-execute *)
(* loop of run().  Python semantics are kept where they decide behaviour:  *)
(* integers are unbounded, a list subscript in -n..-1 addresses from the   *)
(* end of the list, a subscript outside -n..n-1 raises IndexError, a       *)
(* missing dictionary key raises KeyError, and an exception leaves every   *)
(* assignment made before it in place.                                     *)
(***************************************************************************)
EXTENDS Integers, Sequences, FiniteSets, TLC

VARIABLES
    ram,            \* self.ram
    reg,            \* self.reg
    pc,             \* self.pc
    sp,             \* self.sp
    greaterThan,    \* self.greaterThan
    lessThan,       \* self.lessThan
    equals,         \* self.equals
    running,        \* self.running
    operand_a,      \* self.operand_a
    operand_b,      \* self.operand_b
    branch_table,   \* self.branch_table
    output,         \* what print() has written, one entry per call
    ctl,            \* where the caller is: "new", "loaded", "run", "returned", "raised"
    err,            \* the exception that ended run(), or "none"
    steps,          \* number of handler invocations so far (bounds the run)
    last,           \* history: the instruction executed last and the state it started from
    prev,           \* history: the same for the instruction before it
    frame,          \* history: the most recent CALL and the stack traffic since
    image           \* history: the words load() wrote into memory

vars == <<ram, reg, pc, sp, greaterThan, lessThan, equals, running, operand_a,
          operand_b, branch_table, output, ctl, err, steps, last, prev, frame, image>>

----------------------------------------------------------------------------
(* Bounds of the model *)

MaxProgLen == 2
MaxSteps == 6
MaxFactor == 40000

----------------------------------------------------------------------------
(* Program constants *)

RamSize == 256
NumRegs == 8
SP_SEED == 244

OP_HLT == 1
OP_LDI == 130
OP_PRN == 71
OP_MUL == 162
OP_PUSH == 69
OP_POP == 70
OP_CALL == 80
OP_RET == 17
OP_ADD == 160
OP_ST == 132
OP_JMP == 84
OP_CMP == 167
OP_JNE == 86
OP_JEQ == 85
OP_PRA == 72
OP_INC == 101
OP_DEC == 101

Mnemonics == {"HLT", "LDI", "PRN", "PRA", "ADD", "MUL", "INC", "DEC", "CMP",
              "PUSH", "POP", "CALL", "RET", "JMP", "JEQ", "JNE", "ST"}

\* The key/value pairs of the dictionary display, in source order.
BranchEntries ==
    << <<OP_HLT, "HLT">>, <<OP_LDI, "LDI">>, <<OP_PRN, "PRN">>, <<OP_MUL, "MUL">>,
       <<OP_PUSH, "PUSH">>, <<OP_POP, "POP">>, <<OP_CALL, "CALL">>, <<OP_RET, "RET">>,
       <<OP_ADD, "ADD">>, <<OP_ST, "ST">>, <<OP_JMP, "JMP">>, <<OP_CMP, "CMP">>,
       <<OP_JNE, "JNE">>, <<OP_JEQ, "JEQ">>, <<OP_PRA, "PRA">>, <<OP_INC, "INC">>,
       <<OP_DEC, "DEC">> >>

\* A dictionary display evaluates its pairs left to right; a repeated key keeps
\* the value given last.
DictOf(entries) ==
    [k \in {entries[i][1] : i \in 1..Len(entries)} |->
        LET lastIdx == CHOOSE i \in 1..Len(entries) :
                          /\ entries[i][1] = k
                          /\ \A j \in 1..Len(entries) : entries[j][1] = k => j <= i
        IN entries[lastIdx][2]]

----------------------------------------------------------------------------
(* Python list subscripts *)

\* Whether list[i] exists in a list of n elements.
InRange(i, n) == i >= -n /\ i < n

\* The cell list[i] denotes.
PyIndex(i, n) == IF i < 0 THEN i + n ELSE i

ValidAddr(i) == InRange(i, RamSize)
Cell(i) == PyIndex(i, RamSize)
ValidReg(i) == InRange(i, NumRegs)
RegIdx(i) == PyIndex(i, NumRegs)

\* ram_read(mar), where it does not raise
ram_read(mar) == ram[Cell(mar)]

----------------------------------------------------------------------------
(* Program images handed to load() *)

\* Instructions, as the words of a program file.  Registers 0, 1 and 7 are
\* used, 8 is an operand that names no register, and 0 is a byte under which
\* no handler is registered.
InstrPool ==
    { <<OP_HLT>>, <<0>>,
      <<OP_LDI, 0, 255>>, <<OP_LDI, 1, 1>>, <<OP_LDI, 8, 1>>,
      <<OP_PRN, 7>>, <<OP_PRN, 8>>,
      <<OP_PRA, 0>>,
      <<OP_ADD, 0, 7>>, <<OP_ADD, 0, 8>>,
      <<OP_MUL, 7, 7>>, <<OP_MUL, 8, 0>>,
      <<OP_DEC, 0>>, <<OP_DEC, 8>>,
      <<OP_CMP, 0, 1>>, <<OP_CMP, 1, 0>>, <<OP_CMP, 0, 0>>, <<OP_CMP, 0, 8>>,
      <<OP_PUSH, 7>>, <<OP_PUSH, 8>>,
      <<OP_POP, 0>>, <<OP_POP, 7>>, <<OP_POP, 8>>,
      <<OP_CALL, 0>>, <<OP_CALL, 8>>,
      <<OP_RET>>,
      <<OP_JMP, 0>>, <<OP_JMP, 8>>,
      <<OP_JEQ, 1>>, <<OP_JEQ, 8>>,
      <<OP_JNE, 1>>, <<OP_JNE, 8>>,
      <<OP_ST, 0, 7>>, <<OP_ST, 7, 0>>, <<OP_ST, 8, 0>>, <<OP_ST, 0, 8>> }

RECURSIVE Flatten(_)
Flatten(instrs) ==
    IF instrs = <<>> THEN <<>> ELSE Head(instrs) \o Flatten(Tail(instrs))

\* n words that are 0
Pad(n) == [i \in 1..n |-> 0]

\* Longer programs: the two of the specification's section 8 and a few that
\* reach the stack, the subroutine and the branch instructions with values set
\* up by LDI.
ExamplePrograms ==
    { << <<OP_LDI, 0, 5>>, <<OP_LDI, 1, 3>>, <<OP_ADD, 0, 1>>, <<OP_PRN, 0>>, <<OP_HLT>> >>,
      << <<OP_LDI, 0, 9>>, <<OP_LDI, 1, 3>>, <<OP_CMP, 0, 1>>, <<OP_JEQ, 1>> >>,
      << <<OP_LDI, 0, 9>>, <<OP_LDI, 1, 3>>, <<OP_CMP, 0, 1>>, <<OP_JNE, 1>> >>,
      << <<OP_LDI, 0, 9>>, <<OP_LDI, 1, 9>>, <<OP_CMP, 0, 1>>, <<OP_JEQ, 1>> >>,
      << <<OP_LDI, 0, 9>>, <<OP_LDI, 1, 9>>, <<OP_CMP, 0, 1>>, <<OP_JNE, 1>> >>,
      << <<OP_LDI, 0, 9>>, <<OP_PUSH, 0>>, <<OP_POP, 0>>, <<OP_HLT>> >>,
      << <<OP_LDI, 1, 9>>, <<OP_PUSH, 1>>, <<OP_PUSH, 7>>, <<OP_POP, 7>>, <<OP_POP, 1>> >>,
      << <<OP_LDI, 0, 5>>, <<OP_CALL, 0>>, <<OP_RET>> >>,
      << <<OP_LDI, 0, 6>>, <<OP_CALL, 0>>, <<OP_HLT>>, <<OP_PUSH, 7>>, <<OP_POP, 1>>, <<OP_RET>> >>,
      << <<OP_LDI, 0, 6>>, <<OP_CALL, 0>>, <<OP_HLT>>, <<OP_PUSH, 7>>, <<OP_RET>> >>,
      << <<OP_LDI, 0, 200>>, <<OP_MUL, 0, 0>>, <<OP_ADD, 0, 0>>, <<OP_PUSH, 0>>, <<OP_RET>> >>,
      << <<OP_LDI, 0, 255>>, <<OP_LDI, 1, 1>>, <<OP_ADD, 0, 1>>, <<OP_ST, 1, 0>>, <<OP_HLT>> >>,
      << <<OP_LDI, 0, 255>>, <<OP_JMP, 0>>, Pad(250), <<OP_HLT>> >>,
      << <<OP_LDI, 0, 254>>, <<OP_JMP, 0>>, Pad(249), <<OP_PRN, 0>> >>,
      << <<OP_LDI, 0, 9>>, <<OP_PRN, 0>>, <<OP_PUSH, 0>>, <<0>> >> }

Programs ==
    { Flatten(s) : s \in (UNION { [1..n -> InstrPool] : n \in 0..MaxProgLen })
                          \cup ExamplePrograms }

----------------------------------------------------------------------------
(* Construction *)

ZeroRegs == [i \in 0..(NumRegs - 1) |-> 0]

\* No CALL has been executed yet.
NoFrame == [active |-> FALSE, done |-> FALSE, p |-> 0, sp0 |-> 0, bal |-> 0, clean |-> FALSE]

NoInstr == [op |-> "none", a |-> 0, b |-> 0, pc |-> 0, sp |-> 0, reg |-> ZeroRegs]

Init ==
    /\ ram = [i \in 0..(RamSize - 1) |-> 0]
    /\ sp = ZeroRegs[7]                         \* read before register 7 is seeded
    /\ reg = [ZeroRegs EXCEPT ![7] = SP_SEED]
    /\ pc = 0
    /\ greaterThan = 0
    /\ lessThan = 0
    /\ equals = 0
    /\ running = FALSE
    /\ operand_a = 0
    /\ operand_b = 0
    /\ branch_table = DictOf(BranchEntries)
    /\ output = <<>>
    /\ ctl = "new"
    /\ err = "none"
    /\ steps = 0
    /\ last = NoInstr
    /\ prev = NoInstr
    /\ frame = NoFrame
    /\ image = <<>>

----------------------------------------------------------------------------
(* load() and the entry of run() *)

\* load(file) for a readable file whose binary words are prog
Load(prog) ==
    /\ ram' = [i \in 0..(RamSize - 1) |-> IF i < Len(prog) THEN prog[i + 1] ELSE ram[i]]
    /\ ctl' = "loaded"
    /\ image' = prog
    /\ UNCHANGED <<reg, pc, sp, greaterThan, lessThan, equals, running, operand_a,
                   operand_b, branch_table, output, err, steps, last, prev, frame>>

load ==
    /\ ctl = "new"
    /\ \E prog \in Programs : Load(prog)

\* run() up to the first test of the loop condition
run ==
    /\ ctl \in {"new", "loaded"}
    /\ running' = TRUE
    /\ ctl' = "run"
    /\ UNCHANGED <<ram, reg, pc, sp, greaterThan, lessThan, equals, operand_a,
                   operand_b, branch_table, output, err, steps, last, prev, frame, image>>

----------------------------------------------------------------------------
(* The loop body of run(): fetch *)

\* ir = self.ram[self.pc]
IR == ram[Cell(pc)]

\* the three subscripts of the fetch all exist
FetchOK == ValidAddr(pc) /\ ValidAddr(pc + 1) /\ ValidAddr(pc + 2)

\* the handler registered for the fetched byte is h
Dispatch(h) ==
    /\ ctl = "run"
    /\ steps < MaxSteps
    /\ FetchOK
    /\ IR \in DOMAIN branch_table
    /\ branch_table[IR] = h

\* The fetch that precedes the call of handler h.
Fetch(h) ==
    /\ Dispatch(h)
    /\ operand_a' = ram_read(pc + 1)
    /\ operand_b' = ram_read(pc + 2)
    /\ steps' = steps + 1
    /\ last' = [op |-> h, a |-> ram_read(pc + 1), b |-> ram_read(pc + 2),
                pc |-> pc, sp |-> sp, reg |-> reg]
    /\ prev' = last
    /\ UNCHANGED <<branch_table, image>>

\* An exception leaves the loop and run(); otherwise the loop goes on.
Outcome == ctl' = IF err' = "none" THEN ctl ELSE "raised"

\* one of the fetch's subscripts does not exist
FetchFault ==
    /\ ctl = "run"
    /\ ~FetchOK
    /\ operand_a' = IF ValidAddr(pc) /\ ValidAddr(pc + 1) THEN ram_read(pc + 1) ELSE operand_a
    /\ err' = "IndexError"
    /\ ctl' = "raised"
    /\ UNCHANGED <<ram, reg, pc, sp, greaterThan, lessThan, equals, running,
                   operand_b, branch_table, output, steps, last, prev, frame, image>>

\* Faulty variant of IllegalInstruction: an unregistered byte is skipped.
IllegalInstructionSkipped ==
    /\ ctl = "run"
    /\ steps < MaxSteps
    /\ FetchOK
    /\ IR \notin DOMAIN branch_table
    /\ operand_a' = ram_read(pc + 1)
    /\ operand_b' = ram_read(pc + 2)
    /\ pc' = pc + 1
    /\ steps' = steps + 1
    /\ UNCHANGED <<ram, reg, sp, greaterThan, lessThan, equals, running, ctl, err,
                   branch_table, output, last, prev, frame, image>>

\* self.branch_table[ir] for a byte that is no key
IllegalInstruction ==
    /\ ctl = "run"
    /\ FetchOK
    /\ IR \notin DOMAIN branch_table
    /\ operand_a' = ram_read(pc + 1)
    /\ operand_b' = ram_read(pc + 2)
    /\ err' = "KeyError"
    /\ ctl' = "raised"
    /\ UNCHANGED <<ram, reg, pc, sp, greaterThan, lessThan, equals, running,
                   branch_table, output, steps, last, prev, frame, image>>

----------------------------------------------------------------------------
(* The ALU *)

\* Faulty variant of CmpResult: the less-than and greater-than tests exchanged.
CmpResultSwapped(x, y) ==
    [equals      |-> IF x = y THEN 1 ELSE 0,
     lessThan    |-> IF x # y /\ x > y THEN 1 ELSE 0,
     greaterThan |-> IF x # y /\ x < y THEN 1 ELSE 0]

\* The flags CMP leaves for the register values x and y.
CmpResult(x, y) ==
    [equals      |-> IF x = y THEN 1 ELSE 0,
     lessThan    |-> IF x # y /\ x < y THEN 1 ELSE 0,
     greaterThan |-> IF x # y /\ ~(x < y) /\ x > y THEN 1 ELSE 0]

\* Faulty variant of AluAdd: the operands subtracted.
AluAddAsSub(x, y) == x - y

AluAdd(x, y) == x + y
AluMul(x, y) == x * y
\* Faulty variant of AluInc: the value decremented.
AluIncAsDec(x) == x - 1

AluInc(x) == x + 1
AluDec(x) == x - 1

\* alu(op, reg_a, reg_b): the registers, the flags and the exception it leaves
alu(op, reg_a, reg_b) ==
    LET ok2 == ValidReg(reg_a) /\ ValidReg(reg_b)
        ok1 == ValidReg(reg_a)
        ra  == RegIdx(reg_a)
        rb  == RegIdx(reg_b)
    IN CASE op = "ADD" ->
              /\ reg' = IF ok2 THEN [reg EXCEPT ![ra] = AluAdd(reg[ra], reg[rb])] ELSE reg
              /\ err' = IF ok2 THEN err ELSE "IndexError"
              /\ UNCHANGED <<equals, lessThan, greaterThan>>
         [] op = "MUL" ->
              /\ reg' = IF ok2 THEN [reg EXCEPT ![ra] = AluMul(reg[ra], reg[rb])] ELSE reg
              /\ err' = IF ok2 THEN err ELSE "IndexError"
              /\ UNCHANGED <<equals, lessThan, greaterThan>>
         [] op = "CMP" ->
              \* the flags are reset before the registers are read
              /\ equals' = IF ok2 THEN CmpResult(reg[ra], reg[rb]).equals ELSE 0
              /\ lessThan' = IF ok2 THEN CmpResult(reg[ra], reg[rb]).lessThan ELSE 0
              /\ greaterThan' = IF ok2 THEN CmpResult(reg[ra], reg[rb]).greaterThan ELSE 0
              /\ err' = IF ok2 THEN err ELSE "IndexError"
              /\ UNCHANGED reg
         [] op = "INC" ->
              /\ reg' = IF ok1 THEN [reg EXCEPT ![ra] = AluInc(reg[ra])] ELSE reg
              /\ err' = IF ok1 THEN err ELSE "IndexError"
              /\ UNCHANGED <<equals, lessThan, greaterThan>>
         [] op = "DEC" ->
              /\ reg' = IF ok1 THEN [reg EXCEPT ![ra] = AluDec(reg[ra])] ELSE reg
              /\ err' = IF ok1 THEN err ELSE "IndexError"
              /\ UNCHANGED <<equals, lessThan, greaterThan>>
         [] OTHER ->
              /\ err' = "Exception"
              /\ UNCHANGED <<reg, equals, lessThan, greaterThan>>

----------------------------------------------------------------------------
(* History of the most recent CALL *)

\* a handler wrote memory at subscript addr
FrameWrite(addr) ==
    IF frame.active
    THEN [frame EXCEPT !.clean = @ /\ Cell(addr) # Cell(frame.sp0 - 1)]
    ELSE frame

\* a handler moved the stack pointer by d
FrameMove(f, d) == IF f.active THEN [f EXCEPT !.bal = @ + d] ELSE f

----------------------------------------------------------------------------
(* The handlers, each with the fetch that dispatches to it *)

\* Faulty variant of LoopTest: the loop never ends.
LoopTestAlways(r) == "run"

\* while self.running: where the caller is after the test
LoopTest(r) == IF r THEN "run" ELSE "returned"

HLT ==
    /\ Fetch("HLT")
    /\ running' = FALSE
    /\ ctl' = LoopTest(running')
    /\ UNCHANGED <<ram, reg, pc, sp, greaterThan, lessThan, equals, output, err, frame>>

LDI ==
    /\ Fetch("LDI")
    /\ LET a == ram_read(pc + 1)
           b == ram_read(pc + 2)
       IN IF ValidReg(a)
          THEN /\ reg' = [reg EXCEPT ![RegIdx(a)] = b]
               /\ pc' = pc + 3
               /\ err' = err
          ELSE /\ err' = "IndexError"
               /\ UNCHANGED <<reg, pc>>
    /\ Outcome
    /\ UNCHANGED <<ram, sp, greaterThan, lessThan, equals, running, output, frame>>

PRN ==
    /\ Fetch("PRN")
    /\ LET a == ram_read(pc + 1)
       IN IF ValidReg(a)
          THEN /\ output' = Append(output, reg[RegIdx(a)])
               /\ pc' = pc + 2
               /\ err' = err
          ELSE /\ err' = "IndexError"
               /\ UNCHANGED <<output, pc>>
    /\ Outcome
    /\ UNCHANGED <<ram, reg, sp, greaterThan, lessThan, equals, running, frame>>

\* ord() of an integer raises TypeError before anything is printed
PRA ==
    /\ Fetch("PRA")
    /\ err' = "TypeError"
    /\ Outcome
    /\ UNCHANGED <<ram, reg, pc, sp, greaterThan, lessThan, equals, running, output, frame>>

ADD ==
    /\ Fetch("ADD")
    /\ alu("ADD", ram_read(pc + 1), ram_read(pc + 2))
    /\ pc' = IF err' = "none" THEN pc + 3 ELSE pc
    /\ Outcome
    /\ UNCHANGED <<ram, sp, running, output, frame>>

\* The product is computed only while it fits the model's integers.
MulFits(reg_a, reg_b) ==
    ValidReg(reg_a) /\ ValidReg(reg_b) =>
        reg[RegIdx(reg_a)] <= MaxFactor /\ reg[RegIdx(reg_b)] <= MaxFactor

MUL ==
    /\ Fetch("MUL")
    /\ MulFits(ram_read(pc + 1), ram_read(pc + 2))
    /\ alu("MUL", ram_read(pc + 1), ram_read(pc + 2))
    /\ pc' = IF err' = "none" THEN pc + 3 ELSE pc
    /\ Outcome
    /\ UNCHANGED <<ram, sp, running, output, frame>>

CMP ==
    /\ Fetch("CMP")
    /\ alu("CMP", ram_read(pc + 1), ram_read(pc + 2))
    /\ pc' = IF err' = "none" THEN pc + 3 ELSE pc
    /\ Outcome
    /\ UNCHANGED <<ram, sp, running, output, frame>>

\* Registered under 0b01100101 and then replaced by DEC: dispatch never
\* reaches it.
INC ==
    /\ Fetch("INC")
    /\ alu("INC", ram_read(pc + 1), ram_read(pc + 2))
    /\ pc' = IF err' = "none" THEN pc + 2 ELSE pc
    /\ Outcome
    /\ UNCHANGED <<ram, sp, running, output, frame>>

\* DEC passes the tag "INC" to the ALU.
DEC ==
    /\ Fetch("DEC")
    /\ alu("INC", ram_read(pc + 1), ram_read(pc + 2))
    /\ pc' = IF err' = "none" THEN pc + 2 ELSE pc
    /\ Outcome
    /\ UNCHANGED <<ram, sp, running, output, frame>>

JMP ==
    /\ Fetch("JMP")
    /\ LET a == ram_read(pc + 1)
       IN IF ValidReg(a)
          THEN pc' = reg[RegIdx(a)] /\ err' = err
          ELSE pc' = pc /\ err' = "IndexError"
    /\ Outcome
    /\ UNCHANGED <<ram, reg, sp, greaterThan, lessThan, equals, running, output, frame>>

\* Faulty variant of JEQTaken: the test of the flag inverted.
JEQTakenInverted(eq) == eq = 0

\* Whether JEQ and JNE take the branch, for the value of self.equals.
JEQTaken(eq) == eq # 0
JNETaken(eq) == ~(eq # 0)

\* The register is read only when the branch is taken.
JNE ==
    /\ Fetch("JNE")
    /\ LET a == ram_read(pc + 1)
       IN IF JNETaken(equals)
          THEN IF ValidReg(a)
               THEN pc' = reg[RegIdx(a)] /\ err' = err
               ELSE pc' = pc /\ err' = "IndexError"
          ELSE pc' = pc + 2 /\ err' = err
    /\ Outcome
    /\ UNCHANGED <<ram, reg, sp, greaterThan, lessThan, equals, running, output, frame>>

JEQ ==
    /\ Fetch("JEQ")
    /\ LET a == ram_read(pc + 1)
       IN IF JEQTaken(equals)
          THEN IF ValidReg(a)
               THEN pc' = reg[RegIdx(a)] /\ err' = err
               ELSE pc' = pc /\ err' = "IndexError"
          ELSE pc' = pc + 2 /\ err' = err
    /\ Outcome
    /\ UNCHANGED <<ram, reg, sp, greaterThan, lessThan, equals, running, output, frame>>

\* Faulty variant of StValue: the value taken from registerA.
StValueFromA(a, b) == reg[RegIdx(a)]

\* value = self.reg[self.operand_b] and address = self.reg[self.operand_a]
StValue(a, b) == reg[RegIdx(b)]
StAddress(a, b) == reg[RegIdx(a)]

\* ST leaves the PC where it is.
ST ==
    /\ Fetch("ST")
    /\ LET a == ram_read(pc + 1)
           b == ram_read(pc + 2)
       IN IF ValidReg(b) /\ ValidReg(a) /\ ValidAddr(StAddress(a, b))
          THEN /\ ram' = [ram EXCEPT ![Cell(StAddress(a, b))] = StValue(a, b)]
               /\ frame' = FrameWrite(StAddress(a, b))
               /\ err' = err
          ELSE /\ err' = "IndexError"
               /\ UNCHANGED <<ram, frame>>
    /\ Outcome
    /\ UNCHANGED <<reg, pc, sp, greaterThan, lessThan, equals, running, output>>

----------------------------------------------------------------------------
(* The stack *)

\* Faulty variant of SpAfterPop: the increment left out.
SpAfterPopStuck(s) == s

\* Faulty variant of ReturnAddress: the address of the operand of CALL.
ReturnAddressOfOperand(p) == p + 1

\* self.sp -= 1 and self.sp += 1
SpAfterPush(s) == s - 1
SpAfterPop(s) == s + 1

\* next_instruction = self.pc + 2
ReturnAddress(p) == p + 2

RET ==
    /\ Fetch("RET")
    /\ IF ValidAddr(sp)
       THEN /\ pc' = ram[Cell(sp)]
            /\ sp' = SpAfterPop(sp)
            /\ err' = err
       ELSE /\ err' = "IndexError"
            /\ UNCHANGED <<pc, sp>>
    /\ frame' = [frame EXCEPT !.active = FALSE, !.done = frame.active /\ ValidAddr(sp)]
    /\ Outcome
    /\ UNCHANGED <<ram, reg, greaterThan, lessThan, equals, running, output>>

\* The stack pointer is moved and the return address written before the
\* register is read.
CALL ==
    /\ Fetch("CALL")
    /\ sp' = SpAfterPush(sp)
    /\ LET a == ram_read(pc + 1)
       IN IF ~ValidAddr(sp')
          THEN /\ err' = "IndexError"
               /\ frame' = NoFrame
               /\ UNCHANGED <<ram, pc>>
          ELSE /\ ram' = [ram EXCEPT ![Cell(sp')] = ReturnAddress(pc)]
               /\ IF ValidReg(a)
                  THEN /\ pc' = reg[RegIdx(a)]
                       /\ err' = err
                       /\ frame' = [active |-> TRUE, done |-> FALSE, p |-> pc,
                                    sp0 |-> sp, bal |-> 0, clean |-> TRUE]
                  ELSE /\ err' = "IndexError"
                       /\ frame' = NoFrame
                       /\ UNCHANGED pc
    /\ Outcome
    /\ UNCHANGED <<reg, greaterThan, lessThan, equals, running, output>>

POP ==
    /\ Fetch("POP")
    /\ LET a == ram_read(pc + 1)
       IN IF ValidAddr(sp) /\ ValidReg(a)
          THEN /\ reg' = [reg EXCEPT ![RegIdx(a)] = ram[Cell(sp)]]
               /\ sp' = SpAfterPop(sp)
               /\ pc' = pc + 2
               /\ frame' = FrameMove(frame, -1)
               /\ err' = err
          ELSE /\ err' = "IndexError"
               /\ UNCHANGED <<reg, sp, pc, frame>>
    /\ Outcome
    /\ UNCHANGED <<ram, greaterThan, lessThan, equals, running, output>>

\* The stack pointer is moved before the register is read and memory written.
PUSH ==
    /\ Fetch("PUSH")
    /\ sp' = SpAfterPush(sp)
    /\ LET a == ram_read(pc + 1)
       IN IF ValidReg(a) /\ ValidAddr(sp')
          THEN /\ ram' = [ram EXCEPT ![Cell(sp')] = reg[RegIdx(a)]]
               /\ pc' = pc + 2
               /\ frame' = FrameMove(FrameWrite(sp'), 1)
               /\ err' = err
          ELSE /\ err' = "IndexError"
               /\ UNCHANGED <<ram, pc, frame>>
    /\ Outcome
    /\ UNCHANGED <<reg, greaterThan, lessThan, equals, running, output>>

----------------------------------------------------------------------------

Next ==
    \/ load
    \/ run
    \/ FetchFault
    \/ IllegalInstruction
    \/ HLT
    \/ LDI
    \/ PRN
    \/ PRA
    \/ ADD
    \/ MUL
    \/ CMP
    \/ DEC
    \/ JMP
    \/ JNE
    \/ JEQ
    \/ ST
    \/ RET
    \/ CALL
    \/ POP
    \/ PUSH

Spec == Init /\ [][Next]_vars

\* one iteration of the loop of run()
Iterate ==
    \/ FetchFault \/ IllegalInstruction
    \/ HLT \/ LDI \/ PRN \/ PRA \/ ADD \/ MUL \/ CMP \/ DEC
    \/ JMP \/ JNE \/ JEQ \/ ST \/ RET \/ CALL \/ POP \/ PUSH

\* The caller and the loop of run() are one sequential thread: run() is called
\* once a program is loaded, and an iteration that can be taken is taken.
FairSpec == Spec /\ WF_vars(run) /\ WF_vars(Iterate)

----------------------------------------------------------------------------
(* Vocabulary of the properties *)

Byte == 0..255
Flags == <<equals, lessThan, greaterThan>>

\* the operands of the instruction at the PC
OpA == ram_read(pc + 1)
OpB == ram_read(pc + 2)

\* the number of operand bytes an opcode declares: its top two bits
OperandCount(op) == (op \div 64) % 4

PCNeutral == {"HLT", "LDI", "PRN", "PRA", "ADD", "MUL", "INC", "DEC", "CMP",
              "PUSH", "POP", "ST"}

\* the position construction gives the stack pointer
InitialSP == ZeroRegs[7]

----------------------------------------------------------------------------
(* C1 *)

\* C1: each flag is 0 or 1 and at most one is set in every reachable state;
\* a CMP rA,rB on registers that exist leaves exactly one flag set, the one
\* that tells how reg[rA] compares with reg[rB]; a step that does not execute
\* CMP leaves the three flags as they were.
C1_FlagsReflectLastCmp ==
    /\ [](/\ {equals, lessThan, greaterThan} \subseteq {0, 1}
          /\ equals + lessThan + greaterThan <= 1)
    /\ [][(Dispatch("CMP") /\ ValidReg(OpA) /\ ValidReg(OpB)) =>
            /\ equals' + lessThan' + greaterThan' = 1
            /\ (equals' = 1) = (reg[RegIdx(OpA)] = reg[RegIdx(OpB)])
            /\ (lessThan' = 1) = (reg[RegIdx(OpA)] < reg[RegIdx(OpB)])
            /\ (greaterThan' = 1) = (reg[RegIdx(OpA)] > reg[RegIdx(OpB)])]_vars
    /\ [][~Dispatch("CMP") => Flags' = Flags]_vars

\* a CMP of a greater against a smaller value has set greater-than, and a
\* later instruction has kept it
C1_Witness ==
    /\ prev.op = "CMP"
    /\ prev.reg[RegIdx(prev.a)] > prev.reg[RegIdx(prev.b)]
    /\ last.op # "CMP"
    /\ greaterThan = 1 /\ equals = 0 /\ lessThan = 0

----------------------------------------------------------------------------
(* C2 *)

\* C2: ADD, MUL, INC and DEC on byte values leave (a + b) mod 256,
\* (a * b) mod 256, (a + 1) mod 256 and (a - 1) mod 256 in reg[rA], and no
\* step leaves a register outside 0..255.
C2_AluWrapsModulo256 ==
    [][/\ \A r \in DOMAIN reg : reg[r] \in Byte => reg'[r] \in Byte
       /\ (Dispatch("ADD") /\ ValidReg(OpA) /\ ValidReg(OpB)
             /\ reg[RegIdx(OpA)] \in Byte /\ reg[RegIdx(OpB)] \in Byte)
            => reg'[RegIdx(OpA)] = (reg[RegIdx(OpA)] + reg[RegIdx(OpB)]) % 256
       /\ (Dispatch("MUL") /\ ValidReg(OpA) /\ ValidReg(OpB)
             /\ reg[RegIdx(OpA)] \in Byte /\ reg[RegIdx(OpB)] \in Byte)
            => reg'[RegIdx(OpA)] = (reg[RegIdx(OpA)] * reg[RegIdx(OpB)]) % 256
       /\ (Dispatch("INC") /\ ValidReg(OpA) /\ reg[RegIdx(OpA)] \in Byte)
            => reg'[RegIdx(OpA)] = (reg[RegIdx(OpA)] + 1) % 256
       /\ (Dispatch("DEC") /\ ValidReg(OpA) /\ reg[RegIdx(OpA)] \in Byte)
            => reg'[RegIdx(OpA)] = (reg[RegIdx(OpA)] - 1) % 256]_vars

----------------------------------------------------------------------------
(* C3 *)

\* C3: a PC-neutral instruction that executes at address p without faulting
\* leaves PC = p + 1 + the operand count its opcode declares.
C3_NeutralAdvancesPC ==
    [][\A h \in PCNeutral :
          (Dispatch(h) /\ err' = "none") => pc' = pc + 1 + OperandCount(IR)]_vars

----------------------------------------------------------------------------
(* C4 *)

\* C4: the stack pointer is the value of register 7 in every reachable state,
\* it is 244 before the first instruction, and a PUSH executed at that
\* position has written cell 243.
C4_StackPointerIsRegister7 ==
    /\ sp = reg[7]
    /\ steps = 0 => sp = 244
    /\ (last.op = "PUSH" /\ last.sp = InitialSP /\ err = "none")
          => (sp = 243 /\ ram[243] = last.reg[RegIdx(last.a)])

----------------------------------------------------------------------------
(* C5 *)

\* C5: when POP r has executed without fault right after PUSH r, reg[r] is
\* the value it held before the PUSH and the stack pointer is the one from
\* before the PUSH.
C5_PushPopRoundTrip ==
    (/\ last.op = "POP" /\ prev.op = "PUSH"
     /\ last.a = prev.a
     /\ err = "none")
    => /\ reg[RegIdx(last.a)] = prev.reg[RegIdx(prev.a)]
       /\ sp = prev.sp

\* the round trip of a non-zero value through a cell that held another value
C5_Witness ==
    /\ last.op = "POP" /\ prev.op = "PUSH"
    /\ last.a = prev.a
    /\ err = "none"
    /\ reg[RegIdx(last.a)] = 9
    /\ sp = prev.sp

----------------------------------------------------------------------------
(* C6 *)

\* C6: when RET executes after a CALL at address p, with as many pushes as
\* pops in between and no write to the cell holding the return address, the
\* PC is p + 2 and the stack pointer is the one from before the CALL.
C6_CallRetReturns ==
    (last.op = "RET" /\ frame.done /\ frame.bal = 0 /\ frame.clean)
    => /\ err = "none"
       /\ pc = frame.p + 2
       /\ sp = frame.sp0

\* a subroutine with a PUSH and a POP has returned
C6_Witness ==
    /\ last.op = "RET" /\ prev.op = "POP"
    /\ frame.done /\ frame.bal = 0 /\ frame.clean
    /\ pc = frame.p + 2
    /\ frame.p > 0

----------------------------------------------------------------------------
(* C7 *)

\* C7: a POP or RET executed with the stack pointer at its initial position
\* ends the run with a fault and loads no register and no PC from memory,
\* and the stack pointer stays where it was.
C7_PopOfEmptyStackFaults ==
    (last.op \in {"POP", "RET"} /\ last.sp = InitialSP)
    => /\ ctl = "raised"
       /\ reg = last.reg
       /\ pc = last.pc
       /\ sp = last.sp

----------------------------------------------------------------------------
(* C8 *)

\* the next step accesses memory at a subscript outside 0..255
AccessOutsideMemory ==
    \/ ctl = "run" /\ steps < MaxSteps
         /\ \E d \in 0..2 : (pc + d) \notin Byte
    \/ Dispatch("ST") /\ ValidReg(OpA) /\ ValidReg(OpB) /\ reg[RegIdx(OpA)] \notin Byte
    \/ Dispatch("PUSH") /\ ValidReg(OpA) /\ (sp - 1) \notin Byte
    \/ Dispatch("CALL") /\ (sp - 1) \notin Byte
    \/ Dispatch("POP") /\ sp \notin Byte
    \/ Dispatch("RET") /\ sp \notin Byte

\* C8: a step that accesses memory at an address outside 0..255 ends the run
\* with a fault and changes no memory cell.
C8_OutOfRangeAccessFaults ==
    [][AccessOutsideMemory => (ctl' = "raised" /\ ram' = ram)]_vars

----------------------------------------------------------------------------
(* C9 *)

\* C9: each of the 17 mnemonics is registered under an opcode of its own.
C9_DispatchTableInjective ==
    /\ \A m \in Mnemonics : \E op \in DOMAIN branch_table : branch_table[op] = m
    /\ \A op1, op2 \in DOMAIN branch_table :
          branch_table[op1] = branch_table[op2] => op1 = op2
    /\ Cardinality(DOMAIN branch_table) = Cardinality(Mnemonics)

----------------------------------------------------------------------------
(* C10 *)

\* C10: JEQ r sets the PC to reg[r] when the equal flag is set and to PC + 2
\* when it is clear, JNE r does the opposite, and neither changes a register,
\* a flag, a memory cell or the stack pointer; a JEQ that follows the CMP of
\* 9 against 3 leaves the PC two past its own address.
C10_ConditionalBranches ==
    /\ [][(Dispatch("JEQ") /\ ValidReg(OpA)) =>
            /\ pc' = IF equals = 1 THEN reg[RegIdx(OpA)] ELSE pc + 2
            /\ err' = "none"
            /\ UNCHANGED <<reg, equals, lessThan, greaterThan, ram, sp>>]_vars
    /\ [][(Dispatch("JNE") /\ ValidReg(OpA)) =>
            /\ pc' = IF equals = 0 THEN reg[RegIdx(OpA)] ELSE pc + 2
            /\ err' = "none"
            /\ UNCHANGED <<reg, equals, lessThan, greaterThan, ram, sp>>]_vars
    /\ []((/\ last.op = "JEQ" /\ prev.op = "CMP"
           /\ prev.reg[RegIdx(prev.a)] = 9 /\ prev.reg[RegIdx(prev.b)] = 3)
          => pc = last.pc + 2)

\* the JEQ of LDI r0,9 / LDI r1,3 / CMP r0,r1 / JEQ r1 has not branched
C10_Witness ==
    /\ last.op = "JEQ" /\ prev.op = "CMP"
    /\ prev.reg[RegIdx(prev.a)] = 9 /\ prev.reg[RegIdx(prev.b)] = 3
    /\ greaterThan = 1 /\ equals = 0
    /\ last.pc = 9 /\ pc = 11
    /\ reg[RegIdx(last.a)] = 3

----------------------------------------------------------------------------
(* C11 *)

\* C11: when the byte at the PC is no key of the dispatch table, the step ends
\* the run with an exception (KeyError when the fetch of the two operand bytes
\* succeeds), invokes no handler, emits nothing and leaves registers, memory,
\* flags, PC and stack pointer as they were.
C11_IllegalInstructionStops ==
    [][(ctl = "run" /\ ValidAddr(pc) /\ IR \notin DOMAIN branch_table) =>
          /\ ctl' = "raised"
          /\ FetchOK => err' = "KeyError"
          /\ steps' = steps
          /\ UNCHANGED <<reg, ram, equals, lessThan, greaterThan, pc, sp, output>>]_vars

\* an unregistered byte has ended a run that had printed and pushed before
C11_Witness ==
    /\ ctl = "raised" /\ err = "KeyError"
    /\ output = <<9>>
    /\ last.op = "PUSH"
    /\ ram[Cell(pc)] = 0

----------------------------------------------------------------------------
(* C12 *)

\* C12: a step takes the running flag from true to false only by executing
\* HLT; once run() has been entered and the flag is false, no handler is
\* invoked and registers, memory, flags, PC, stack pointer and output stay as
\* they are.
C12_HaltedIsFinal ==
    /\ [][(running /\ ~running') => Dispatch("HLT")]_vars
    /\ [][(~running /\ ctl \notin {"new", "loaded"}) =>
            UNCHANGED <<reg, ram, equals, lessThan, greaterThan, pc, sp, output,
                        steps, running>>]_vars

\* HLT has ended a run of several instructions
C12_Witness ==
    /\ ctl = "returned" /\ ~running
    /\ last.op = "HLT" /\ prev.op = "POP"
    /\ steps = 4

----------------------------------------------------------------------------
(* C13 *)

\* the words of LDI r0,5 / LDI r1,3 / ADD r0,r1 / PRN r0 / HLT
SumProgram ==
    Flatten(<< <<OP_LDI, 0, 5>>, <<OP_LDI, 1, 3>>, <<OP_ADD, 0, 1>>, <<OP_PRN, 0>>,
               <<OP_HLT>> >>)

\* run() has returned after HLT with 8 printed once, reg[0] = 8 and reg[1] = 3
SumHalted ==
    /\ ctl = "returned" /\ ~running
    /\ output = <<8>>
    /\ reg[0] = 8 /\ reg[1] = 3

\* C13: once load() has written LDI r0,5 / LDI r1,3 / ADD r0,r1 / PRN r0 / HLT
\* into the memory of a fresh CPU, the run eventually halts with running
\* false, the single output 8, reg[0] = 8 and reg[1] = 3.
C13_SumProgramHalts ==
    (ctl = "loaded" /\ image = SumProgram) ~> SumHalted

\* the halted state of that program
C13_Witness ==
    /\ image = SumProgram
    /\ SumHalted
    /\ last.op = "HLT" /\ steps = 5

----------------------------------------------------------------------------
(* C14 *)

\* C14: PRA r on a register that exists and holds a byte value does not fault,
\* emits exactly one output, the character whose code point is reg[r] (an
\* output entry is that code point), and changes no register, flag, memory
\* cell or stack pointer.
C14_PraEmitsCharacter ==
    [][(Dispatch("PRA") /\ ValidReg(OpA) /\ reg[RegIdx(OpA)] \in Byte) =>
          /\ err' = "none"
          /\ output' = Append(output, reg[RegIdx(OpA)])
          /\ UNCHANGED <<reg, equals, lessThan, greaterThan, ram, sp>>]_vars

----------------------------------------------------------------------------
(* C15 *)

\* the instruction at the PC and the operand bytes its opcode declares lie in
\* memory
DeclaredBytesInMemory ==
    /\ ctl = "run"
    /\ steps < MaxSteps
    /\ pc \in Byte
    /\ IR \in DOMAIN branch_table
    /\ (pc + OperandCount(IR)) \in Byte

\* C15: an instruction whose declared operand bytes lie in memory is handed to
\* its handler (no fetch beyond them ends the run), so HLT in any cell,
\* cell 254 and 255 included, halts the machine.
C15_FetchReadsDeclaredOperands ==
    [][DeclaredBytesInMemory =>
          /\ steps' = steps + 1
          /\ branch_table[IR] = "HLT" => (ctl' = "returned" /\ ~running')]_vars

----------------------------------------------------------------------------
(* C16 *)

\* C16: the DEC handler, invoked on a register that exists and holds the byte
\* a, leaves (a - 1) mod 256 there, leaves the other registers, the flags,
\* memory and the stack pointer unchanged, and advances the PC by 2.
C16_DecDecrements ==
    [][(Dispatch("DEC") /\ ValidReg(OpA) /\ reg[RegIdx(OpA)] \in Byte) =>
          /\ reg' = [reg EXCEPT ![RegIdx(OpA)] = (reg[RegIdx(OpA)] - 1) % 256]
          /\ pc' = pc + 2
          /\ UNCHANGED <<equals, lessThan, greaterThan, ram, sp>>]_vars

----------------------------------------------------------------------------
(* C17 *)

\* opcodes of the PC-neutral instructions other than HLT (INC and DEC share
\* one opcode)
NeutralOps == {OP_LDI, OP_PRN, OP_PRA, OP_ADD, OP_MUL, OP_INC, OP_CMP, OP_PUSH,
               OP_POP, OP_ST}

\* the register operands of the instruction at the head of words w are in 0..7
RegisterOperandsValid(w) ==
    /\ Len(w) > OperandCount(w[1])
    /\ OperandCount(w[1]) >= 1 => w[2] \in 0..7
    /\ (OperandCount(w[1]) = 2 /\ w[1] # OP_LDI) => w[3] \in 0..7

\* w is a sequence of PC-neutral instructions with register operands in 0..7
\* that ends with HLT
RECURSIVE StraightLine(_)
StraightLine(w) ==
    IF w = <<>> THEN FALSE
    ELSE IF w[1] = OP_HLT THEN Len(w) = 1
    ELSE /\ w[1] \in NeutralOps
         /\ RegisterOperandsValid(w)
         /\ StraightLine(SubSeq(w, OperandCount(w[1]) + 2, Len(w)))

\* the number of instructions in the words w of a straight-line program
RECURSIVE NumInstr(_)
NumInstr(w) ==
    IF w = <<>> THEN 0
    ELSE 1 + NumInstr(SubSeq(w, OperandCount(w[1]) + 2, Len(w)))

\* no cell of the loaded program has been overwritten
ProgramIntact == \A i \in 1..Len(image) : ram[i - 1] = image[i]

\* C17 (what a finite run shows of it): while a straight-line program in cells
\* 0..253 is intact, its run has not ended in an exception, no more handler
\* invocations have happened than it has instructions, and when run() has
\* returned each instruction has been executed exactly once.
C17_StraightLineHalts ==
    (StraightLine(image) /\ Len(image) <= 254 /\ ProgramIntact) =>
        /\ ctl # "raised"
        /\ steps <= NumInstr(image)
        /\ ctl = "returned" => steps = NumInstr(image)

----------------------------------------------------------------------------
(* C18 *)

\* the instruction at the PC names a register outside 0..7
BadRegisterOperand ==
    \/ /\ \E h \in {"LDI", "PRN", "INC", "DEC", "PUSH", "POP", "CALL", "JMP", "JEQ", "JNE"} :
             Dispatch(h)
       /\ OpA \notin 0..7
    \/ /\ \E h \in {"ADD", "MUL", "CMP", "ST"} : Dispatch(h)
       /\ (OpA \notin 0..7 \/ OpB \notin 0..7)

\* C18: an instruction whose register operand is outside 0..7 ends the run
\* with a fault and leaves registers, flags, memory, PC and stack pointer as
\* they were.
C18_BadRegisterFaultsCleanly ==
    [][BadRegisterOperand =>
          /\ ctl' = "raised"
          /\ UNCHANGED <<reg, equals, lessThan, greaterThan, ram, pc, sp>>]_vars

----------------------------------------------------------------------------
(* C19 *)

\* C19: ST rA,rB on registers that exist, with reg[rA] in 0..255, sets the
\* cell reg[rA] to reg[rB], changes no other cell, no register, no flag and
\* not the stack pointer, and does not fault.
C19_StoreFrame ==
    [][(Dispatch("ST") /\ ValidReg(OpA) /\ ValidReg(OpB) /\ reg[RegIdx(OpA)] \in Byte) =>
          /\ ram' = [ram EXCEPT ![reg[RegIdx(OpA)]] = reg[RegIdx(OpB)]]
          /\ err' = "none"
          /\ UNCHANGED <<reg, equals, lessThan, greaterThan, sp>>]_vars

\* ST R7,R0 has stored 255 in cell 244
C19_Witness ==
    /\ last.op = "ST" /\ err = "none"
    /\ last.a = 7 /\ last.b = 0
    /\ last.reg[0] = 255
    /\ ram[244] = 255

----------------------------------------------------------------------------
(* C20 *)

====
